---------------------------- MODULE Spec2Model ----------------------------
(***************************************************************************)
(* Model of the MySQL lock driver of tooz (tooz/drivers/mysql.py).         *)
(*                                                                         *)
(* Several coordinators (MySQLDriver objects, one per member id) share one *)
(* MySQL database.  A lock is a row of the table `tooz_locks`, whose       *)
(* primary key is `name`; a coordinator records the handles (MySQLLock     *)
(* objects) it holds in its list `_acquired_locks`.                        *)
(*                                                                         *)
(* Granularity.  Every SQL statement is one step, so that the statements   *)
(* of different coordinators interleave.  The update of `_acquired_locks`  *)
(* that follows a statement inside the same `with` block is taken in the   *)
(* same step as the statement: the list is private to its coordinator and  *)
(* a coordinator runs one call at a time (the driver does not serialise    *)
(* threads on one connection, callers have to).                            *)
(*                                                                         *)
(* Store errors.  A statement that ends in a pymysql error has had no      *)
(* effect on the table.  A transient error (a dropped connection) can hit  *)
(* any statement; at most MaxFaults of them hit the statements of a call.  *)
(*                                                                         *)
(* What the driver imports.  _retry.retry and the base class               *)
(* CoordinationDriver are modelled by what their users and the design      *)
(* notes say of them: retry calls the function again when it raises Retry, *)
(* until the deadline given by `blocking`; start and stop keep _started.   *)
(*                                                                         *)
(* pymysql.  `with conn as cur` is the Connection context manager of the   *)
(* pymysql releases the driver was written for: it yields a cursor and     *)
(* commits or rolls back on exit, the connections are autocommit.          *)
(* Error 1146 (no such table) is a ProgrammingError, 1062 (duplicate key)  *)
(* an IntegrityError, 1050 (table exists) an OperationalError.             *)
(***************************************************************************)
EXTENDS Integers, Sequences, FiniteSets

(* Bounds of the model. *)
NumCoords == 2
NumNames == 2
NumHandles == 3
MaxFaults == 2

Coordinators == 1..NumCoords      \* the member ids, one coordinator each
Names == 1..NumNames              \* the lock names
HandleIds == 1..NumHandles        \* the handles get_lock gave a coordinator

(* The name get_lock was called with for handle i: with more handles than  *)
(* names a coordinator has two handles of one name.  A handle has its own  *)
(* connection (line 38); it is used whether the driver is started or not.  *)
NameOf(i) == ((i - 1) % NumNames) + 1

(* The values of the `blocking` argument of acquire: False, True, or a     *)
(* number, the timeout.                                                    *)
Blocking == {"false", "true", "timeout"}

VARIABLES
    tableExists,     \* whether the table tooz_locks exists in the database
    tooz_locks,      \* the rows of the table: [name, created_by]
    started,         \* started[c]: CoordinationDriver._started
    conn,            \* conn[c]: the coordinator's connection MySQLDriver._conn,
                     \* "open" or "closed" (not open: not made yet, or closed)
    acquired_locks,  \* acquired_locks[c]: MySQLDriver._acquired_locks
    op               \* op[c]: the call coordinator c is executing or has made

vars == <<tableExists, tooz_locks, started, conn, acquired_locks, op>>

(* A call: what was called and where it is, and what has happened to it.   *)
(*   kind, h, blocking  the method, the handle and the blocking argument   *)
(*   pc                 the statement the call executes next; "done" when  *)
(*                      the call has ended and its caller has the result   *)
(*   i                  the position of the list iterator of _stop         *)
(*   snap, tried        _acquired_locks when _stop began, and the handles  *)
(*                      _stop has called release on, in order              *)
(*   errs, reconnects   the transient store errors that hit the call and   *)
(*                      the reconnects that succeeded                      *)
(*   noTable            an INSERT of the call found the table missing      *)
(*   free               acquire: no row of the name existed when the call  *)
(*                      began                                              *)
(*   updated            heartbeat: the handles whose UPDATE was executed   *)
(*   res                the value returned or the exception raised         *)
Idle ==
    [kind |-> "idle", h |-> 0, blocking |-> "none", pc |-> "-", i |-> 0,
     snap |-> <<>>, tried |-> <<>>, errs |-> 0, reconnects |-> 0,
     noTable |-> FALSE, free |-> FALSE, updated |-> <<>>, res |-> "-"]

IsIdle(c) == op[c].kind = "idle"

Init ==
    /\ tableExists \in BOOLEAN
    /\ tooz_locks = {}
    /\ started = [c \in Coordinators |-> FALSE]
    /\ conn = [c \in Coordinators |-> "closed"]
    /\ acquired_locks = [c \in Coordinators |-> <<>>]
    /\ op = [c \in Coordinators |-> Idle]

-----------------------------------------------------------------------------
(* The table. *)

Row(n, c) == [name |-> n, created_by |-> c]

RowsNamed(n) == {r \in tooz_locks : r.name = n}

(* Mutant of DuplicateKey: the table has no primary key. *)
NoPrimaryKey(n) == FALSE

(* PRIMARY KEY (`name`): an INSERT of a name that has a row is refused     *)
(* with a duplicate-key error.                                             *)
DuplicateKey(n) == RowsNamed(n) # {}

(* Mutant of Insert: the row is not stored (the INSERT is rolled back). *)
InsertRolledBack(n, c) == tooz_locks

(* INSERT INTO tooz_locks (name, created_at, created_by). *)
Insert(n, c) == tooz_locks \cup {Row(n, c)}

(* Mutant of Delete: the row is not deleted (the DELETE is rolled back). *)
DeleteRolledBack(n, c) == tooz_locks

(* DELETE FROM tooz_locks WHERE name = n AND created_by = c. *)
Delete(n, c) == {r \in tooz_locks : ~(r.name = n /\ r.created_by = c)}

-----------------------------------------------------------------------------
(* The registry. *)

SeqSet(s) == {s[k] : k \in 1..Len(s)}

(* Mutant of acquired: handles are compared by the name of their lock. *)
acquiredByName(c, h) ==
    \E g \in SeqSet(acquired_locks[c]) : NameOf(g) = NameOf(h)

(* Mutant of acquired: no handle is seen as held. *)
acquiredNever(c, h) == FALSE

(* MySQLLock.acquired: self in self.coord._acquired_locks. *)
acquired(c, h) == h \in SeqSet(acquired_locks[c])

(* What is recorded: handle h is in the list of coordinator c. *)
InRegistry(c, h) == h \in SeqSet(acquired_locks[c])

(* Mutant of Remove: the handle is left in the list. *)
RemoveNothing(s, h) == s

(* list.remove(h): the list without its first h (the driver removes only   *)
(* a handle that is in the list).                                          *)
Remove(s, h) ==
    IF h \notin SeqSet(s) THEN s
    ELSE LET k == CHOOSE j \in 1..Len(s) : s[j] = h /\ \A m \in 1..(j - 1) : s[m] # h
         IN  SubSeq(s, 1, k - 1) \o SubSeq(s, k + 1, Len(s))


-----------------------------------------------------------------------------
(* Calls.  A coordinator that is executing no call begins one; the steps   *)
(* of the call follow; the call ends with its result, which stays with the *)
(* caller until it goes on (Return) to make its next call.                 *)

(* Coordinator c, executing no call, makes the call `call`, which is at    *)
(* `now` after this step.                                                  *)
Called(c, call, now) ==
    /\ IsIdle(c)
    /\ op' = [op EXCEPT ![c] = now]

Begin(c, call) ==
    /\ Called(c, call, call)
    /\ UNCHANGED <<tableExists, tooz_locks, started, conn, acquired_locks>>

(* The call `call` ended with the value or exception res. *)
Ended(call, res) == [call EXCEPT !.pc = "done", !.res = res]

(* The call `call` of c, which c is executing, ends with res. *)
Finish(c, call, res) ==
    op' = [op EXCEPT ![c] = Ended(call, res)]

(* The call of c goes on as `call`. *)
Goto(c, call) ==
    op' = [op EXCEPT ![c] = call]

(* The caller of c goes on after the call it made. *)
Return(c) ==
    /\ op[c].pc = "done"
    /\ op' = [op EXCEPT ![c] = Idle]
    /\ UNCHANGED <<tableExists, tooz_locks, started, conn, acquired_locks>>

(* A transient store error may hit a statement of the call: the statement  *)
(* has no effect.                                                          *)
CanFail(call) == call.errs < MaxFaults

Hit(call) == [call EXCEPT !.errs = @ + 1]

Reconnected(call) == [call EXCEPT !.reconnects = @ + 1]

Done(c, kind) == op[c].kind = kind /\ op[c].pc = "done"

-----------------------------------------------------------------------------
(* MySQLLock.acquire. *)

CallAcquire(c, h, b) ==
    Begin(c, [Idle EXCEPT !.kind = "acquire", !.h = h, !.blocking = b,
                          !.pc = "insert",
                          !.free = ~DuplicateKey(NameOf(h))])

(* _retry.retry(stop_max_delay=blocking) around _lock, when _lock raises   *)
(* _retry.Retry: _lock is called again, unless blocking is a timeout and   *)
(* the deadline has passed, which ends the call with the timeout.  No      *)
(* deadline applies when blocking is True or False.                        *)
retry(c, call) ==
    \/ Goto(c, [call EXCEPT !.pc = "insert"])
    \/ /\ call.blocking = "timeout"
       /\ Finish(c, call, "Timeout")

(* except pymysql.IntegrityError (lines 77-81): LockAcquireFailed is       *)
(* raised, whatever `blocking` is.                                         *)
on_IntegrityError(c, call) == Finish(c, call, "LockAcquireFailed")

(* Mutant of on_MySQLError: the Retry raised after the reconnect is caught  *)
(* by the inner handler and raised as ToozError.                           *)
on_MySQLError_no_retry(c, call) ==
    \/ Finish(c, Reconnected(Hit(call)), "ToozError")
    \/ Finish(c, Hit(call), "ToozError")

(* except pymysql.MySQLError (lines 83-91): reconnect, then Retry; a       *)
(* reconnect that fails is raised as ToozError.                            *)
on_MySQLError(c, call) ==
    \/ retry(c, Reconnected(Hit(call)))
    \/ Finish(c, Hit(call), "ToozError")

(* Mutant of acquire_lock: the handle is appended to the list before the   *)
(* INSERT is executed, so it is in the list also when the INSERT fails.    *)
acquire_lock_append_first(c) ==
    LET call == op[c]
        h == call.h
        n == NameOf(h)
    IN  /\ call.kind = "acquire"
        /\ call.pc = "insert"
        /\ \/ /\ acquired(c, h)
              /\ IF call.blocking # "false"
                    THEN retry(c, call)
                    ELSE Finish(c, call, "False")
              /\ UNCHANGED <<tableExists, tooz_locks, acquired_locks>>
           \/ /\ ~acquired(c, h)
              /\ ~tableExists
              /\ Goto(c, [call EXCEPT !.pc = "create", !.noTable = TRUE])
              /\ UNCHANGED <<tableExists, tooz_locks, acquired_locks>>
           \/ /\ ~acquired(c, h)
              /\ tableExists
              /\ DuplicateKey(n)
              /\ acquired_locks' = [acquired_locks EXCEPT ![c] = Append(@, h)]
              /\ on_IntegrityError(c, call)
              /\ UNCHANGED <<tableExists, tooz_locks>>
           \/ /\ ~acquired(c, h)
              /\ tableExists
              /\ ~DuplicateKey(n)
              /\ tooz_locks' = Insert(n, c)
              /\ acquired_locks' = [acquired_locks EXCEPT ![c] = Append(@, h)]
              /\ Finish(c, call, "True")
              /\ UNCHANGED tableExists
        /\ UNCHANGED <<started, conn>>

(* One call of _lock up to the outcome of its INSERT (lines 44-56) and the *)
(* handler of its error.  The handler of ProgrammingError goes on in       *)
(* acquire_create.  Every branch returns or raises: lines 93-95 are not    *)
(* reached.                                                                *)
acquire_lock(c) ==
    LET call == op[c]
        h == call.h
        n == NameOf(h)
    IN  /\ call.kind = "acquire"
        /\ call.pc = "insert"
        /\ \/ /\ acquired(c, h)
              /\ IF call.blocking # "false"
                    THEN retry(c, call)
                    ELSE Finish(c, call, "False")
              /\ UNCHANGED <<tableExists, tooz_locks, acquired_locks>>
           \/ /\ ~acquired(c, h)
              /\ CanFail(call)
              /\ on_MySQLError(c, call)
              /\ UNCHANGED <<tableExists, tooz_locks, acquired_locks>>
           \/ /\ ~acquired(c, h)
              /\ ~tableExists
              /\ Goto(c, [call EXCEPT !.pc = "create", !.noTable = TRUE])
              /\ UNCHANGED <<tableExists, tooz_locks, acquired_locks>>
           \/ /\ ~acquired(c, h)
              /\ tableExists
              /\ DuplicateKey(n)
              /\ on_IntegrityError(c, call)
              /\ UNCHANGED <<tableExists, tooz_locks, acquired_locks>>
           \/ /\ ~acquired(c, h)
              /\ tableExists
              /\ ~DuplicateKey(n)
              /\ tooz_locks' = Insert(n, c)
              /\ acquired_locks' = [acquired_locks EXCEPT ![c] = Append(@, h)]
              /\ Finish(c, call, "True")
              /\ UNCHANGED tableExists
        /\ UNCHANGED <<started, conn>>

(* Mutant of acquire_create: the Retry raised after CREATE TABLE is caught  *)
(* by the inner handler and raised as ToozError.                           *)
acquire_create_no_retry(c) ==
    LET call == op[c]
    IN  /\ call.kind = "acquire"
        /\ call.pc = "create"
        /\ tableExists' = TRUE
        /\ Finish(c, call, "ToozError")
        /\ UNCHANGED <<tooz_locks, started, conn, acquired_locks>>

(* The handler of ProgrammingError (lines 57-76): CREATE TABLE, then       *)
(* Retry; any error of the CREATE TABLE, the table existing by now         *)
(* included, is raised as ToozError.                                       *)
acquire_create(c) ==
    LET call == op[c]
    IN  /\ call.kind = "acquire"
        /\ call.pc = "create"
        /\ \/ /\ CanFail(call)
              /\ Finish(c, Hit(call), "ToozError")
              /\ UNCHANGED tableExists
           \/ /\ tableExists
              /\ Finish(c, call, "ToozError")
              /\ UNCHANGED tableExists
           \/ /\ ~tableExists
              /\ tableExists' = TRUE
              /\ retry(c, call)
        /\ UNCHANGED <<tooz_locks, started, conn, acquired_locks>>

-----------------------------------------------------------------------------
(* MySQLLock.release. *)

CallRelease(c, h) ==
    Begin(c, [Idle EXCEPT !.kind = "release", !.h = h, !.pc = "delete"])

(* release() of handle h of coordinator c ends with res (lines 99-118):    *)
(* False when the handle is not held; True after the DELETE and the        *)
(* removal from the list; when the DELETE fails, Retry if the reconnect    *)
(* succeeds (nothing catches it: release is not decorated), ToozError if   *)
(* it does not.                                                            *)
release(c, h, call, res) ==
    \/ /\ ~acquired(c, h)
       /\ res = "False"
       /\ UNCHANGED <<tooz_locks, acquired_locks>>
    \/ /\ acquired(c, h)
       /\ tableExists
       /\ res = "True"
       /\ tooz_locks' = Delete(NameOf(h), c)
       /\ acquired_locks' = [acquired_locks EXCEPT ![c] = Remove(@, h)]
    \/ /\ acquired(c, h)
       /\ CanFail(call) \/ ~tableExists
       /\ res \in {"Retry", "ToozError"}
       /\ UNCHANGED <<tooz_locks, acquired_locks>>

release_call(c) ==
    LET call == op[c]
    IN  /\ call.kind = "release"
        /\ call.pc = "delete"
        /\ \E res \in {"False", "True", "Retry", "ToozError"} :
              /\ release(c, call.h, call, res)
              /\ Finish(c, IF res = "Retry" THEN Reconnected(Hit(call))
                           ELSE IF res = "ToozError" THEN Hit(call)
                           ELSE call, res)
        /\ UNCHANGED <<tableExists, started, conn>>

-----------------------------------------------------------------------------
(* MySQLDriver: start, stop, heartbeat. *)

(* pymysql.Connect ends with a connection or, when the server cannot be    *)
(* reached (unknown host, refused or wrong port) or answers badly, with    *)
(* OperationalError or InternalError.                                      *)
Connect == {"connection", "OperationalError", "InternalError"}

(* What a call of start can get from get_connection. *)
ConnectResults == Connect \cup {"ToozConnectionError"}

(* Mutant of get_connection: the errors of pymysql.Connect are not caught. *)
get_connection_uncaught(res) == res \in Connect

(* MySQLDriver.get_connection ends with a connection, or with              *)
(* ToozConnectionError when pymysql.Connect raises OperationalError or     *)
(* InternalError (lines 221-248).                                          *)
get_connection(res) ==
    \E e \in Connect :
        res = IF e \in {"OperationalError", "InternalError"}
                 THEN "ToozConnectionError"
                 ELSE e

(* CoordinationDriver.start, of the base class, refuses a driver that is   *)
(* started.                                                                *)
start_refused(c) == started[c]

(* CoordinationDriver.stop, of the base class, refuses a driver that is    *)
(* not started: "Can not stop a driver which has not been started".        *)
stop_refused(c) == ~started[c]

(* start: _start opens the connection (lines 175-177), and the driver is   *)
(* started when it has.                                                    *)
CallStart(c) ==
    LET call == [Idle EXCEPT !.kind = "start"]
    IN  /\ IF start_refused(c)
              THEN /\ Called(c, call, Ended(call, "ToozError"))
                   /\ UNCHANGED <<started, conn>>
              ELSE \E res \in ConnectResults :
                      /\ get_connection(res)
                      /\ IF res = "connection"
                            THEN /\ conn' = [conn EXCEPT ![c] = "open"]
                                 /\ started' = [started EXCEPT ![c] = TRUE]
                                 /\ Called(c, call, Ended(call, "None"))
                            ELSE /\ Called(c, call, Ended(call, res))
                                 /\ UNCHANGED <<started, conn>>
        /\ UNCHANGED <<tableExists, tooz_locks, acquired_locks>>

(* stop: _stop begins, its iterator at the head of the list (line 180).    *)
CallStop(c) ==
    LET call == [Idle EXCEPT !.kind = "stop"]
    IN  /\ IF stop_refused(c)
              THEN Called(c, call, Ended(call, "ToozError"))
              ELSE Called(c, call, [call EXCEPT !.pc = "loop", !.i = 1,
                                                !.snap = acquired_locks[c]])
        /\ UNCHANGED <<tableExists, tooz_locks, started, conn, acquired_locks>>

(* The list iterator of `for _lock in self._acquired_locks` (line 180): it *)
(* holds a position in the list itself, and the next item is the one at    *)
(* the next position of the list as it is by then.                         *)
HasNext(c, i) == i <= Len(acquired_locks[c])

NextItem(c, i) == acquired_locks[c][i]

(* One round of the loop of _stop (lines 180-184): release the item, and   *)
(* go on whatever release raised.                                          *)
stop_loop(c) ==
    LET call == op[c]
    IN  /\ call.kind = "stop"
        /\ call.pc = "loop"
        /\ HasNext(c, call.i)
        /\ LET h == NextItem(c, call.i)
               next == [call EXCEPT !.i = @ + 1, !.tried = Append(@, h)]
           IN  \E res \in {"False", "True", "Retry", "ToozError"} :
                  /\ release(c, h, call, res)
                  /\ Goto(c, IF res = "Retry" THEN Reconnected(Hit(next))
                             ELSE IF res = "ToozError" THEN Hit(next)
                             ELSE next)
        /\ UNCHANGED <<tableExists, started, conn>>

(* The end of _stop (line 185): the connection is closed; stop then marks  *)
(* the driver stopped.                                                     *)
stop_close(c) ==
    LET call == op[c]
    IN  /\ call.kind = "stop"
        /\ call.pc = "loop"
        /\ ~HasNext(c, call.i)
        /\ conn' = [conn EXCEPT ![c] = "closed"]
        /\ started' = [started EXCEPT ![c] = FALSE]
        /\ Finish(c, call, "None")
        /\ UNCHANGED <<tableExists, tooz_locks, acquired_locks>>

(* MySQLLock.heartbeat (lines 120-136) reads self.aquired, an attribute no *)
(* MySQLLock has: it raises AttributeError before any statement.           *)
lock_heartbeat(c, h) == "AttributeError"

CallLockHeartbeat(c, h) ==
    /\ LET call == [Idle EXCEPT !.kind = "lock_heartbeat", !.h = h]
       IN  Called(c, call, Ended(call, lock_heartbeat(c, h)))
    /\ UNCHANGED <<tableExists, tooz_locks, started, conn, acquired_locks>>

(* The UPDATE of MySQLLock.heartbeat (lines 123-127) is executed only by a *)
(* call that got past the test of line 121.                                *)
heartbeat_updates(c, h) == lock_heartbeat(c, h) = "None" /\ acquired(c, h)

(* MySQLDriver.heartbeat (lines 187-192): heartbeat of every handle of the *)
(* list, in order (the list is not changed meanwhile); whatever a          *)
(* heartbeat raises is dropped and the loop goes on.                       *)
CallHeartbeat(c) ==
    /\ LET held == acquired_locks[c]
           call == [Idle EXCEPT
                       !.kind = "heartbeat", !.snap = held, !.tried = held,
                       !.updated = SelectSeq(held,
                                       LAMBDA h : heartbeat_updates(c, h))]
       IN  Called(c, call, Ended(call, "None"))
    /\ UNCHANGED <<tableExists, tooz_locks, started, conn, acquired_locks>>

-----------------------------------------------------------------------------
Next ==
    \E c \in Coordinators :
        \/ CallStart(c)
        \/ CallStop(c)
        \/ stop_loop(c)
        \/ stop_close(c)
        \/ CallHeartbeat(c)
        \/ \E h \in HandleIds :
              \/ \E b \in Blocking : CallAcquire(c, h, b)
              \/ CallRelease(c, h)
              \/ CallLockHeartbeat(c, h)
        \/ acquire_lock(c)
        \/ acquire_create(c)
        \/ release_call(c)
        \/ Return(c)

Spec == Init /\ [][Next]_vars

-----------------------------------------------------------------------------
(* What the claims speak of. *)

(* The entries of all the lists that are handles of name n. *)
HoldersOf(n) ==
    {<<c, k>> \in Coordinators \X (1..NumHandles) :
        k <= Len(acquired_locks[c]) /\ NameOf(acquired_locks[c][k]) = n}

(* Coordinator c has made a call of acquire that has ended. *)
Acquired(c) == Done(c, "acquire")

(* A row of name n that another member than c created. *)
HeldByOther(n, c) == \E r \in RowsNamed(n) : r.created_by # c

(* No store error hit the call: no transient error and no missing table.   *)
NoStoreError(call) == call.errs = 0 /\ ~call.noTable

Racers(n) ==
    {c \in Coordinators :
        /\ Acquired(c)
        /\ op[c].blocking = "false"
        /\ NameOf(op[c].h) = n
        /\ op[c].free
        /\ NoStoreError(op[c])}

(* C2: when all coordinators have called acquire(blocking=False) on one    *)
(* name while it had no row, with no store error, exactly one call has     *)
(* returned True and every other has returned False or raised              *)
(* LockAcquireFailed.                                                      *)
C2_ExactlyOneWinner ==
    \A n \in Names :
        Racers(n) = Coordinators =>
            /\ Cardinality({c \in Coordinators : op[c].res = "True"}) = 1
            /\ \A c \in Coordinators :
                  op[c].res \in {"True", "False", "LockAcquireFailed"}

(* C2 witness: the race has been run, one call won and another lost.       *)
C2_Witness ==
    \E n \in Names :
        /\ Racers(n) = Coordinators
        /\ \E c \in Coordinators : op[c].res = "True"
        /\ \E c \in Coordinators : op[c].res = "LockAcquireFailed"

(* C3: when a started coordinator that holds locks is stopped and no store *)
(* error occurs, after stop has returned every one of them is released:    *)
(* its list is empty and the table has no row it created.                  *)
C3_StopReleasesAll ==
    \A c \in Coordinators :
        (Done(c, "stop") /\ op[c].res = "None" /\ op[c].errs = 0) =>
            /\ acquired_locks[c] = <<>>
            /\ \A r \in tooz_locks : r.created_by # c

(* C4: acquire(blocking=False) on a name whose row another coordinator     *)
(* inserted returns False, raises nothing, and leaves the table and the    *)
(* lists as they were.                                                     *)
C4_ContentionReturnsFalse ==
    [][\A c \in Coordinators :
          (/\ op[c].kind = "acquire"
           /\ op[c].pc = "insert"
           /\ op[c].blocking = "false"
           /\ tableExists
           /\ HeldByOther(NameOf(op[c].h), c)
           /\ op'[c] # op[c]
           /\ op'[c].errs = op[c].errs)
          => /\ op'[c].pc = "done"
             /\ op'[c].res = "False"
             /\ tooz_locks' = tooz_locks
             /\ acquired_locks' = acquired_locks]_vars

(* C5: a blocking acquire (blocking True or a timeout) on a name another   *)
(* coordinator holds retries the insert on each contention, or ends with   *)
(* the timeout; it does not fail with an acquire error on the contention.  *)
C5_BlockingRetriesOnContention ==
    [][\A c \in Coordinators :
          (/\ op[c].kind = "acquire"
           /\ op[c].pc = "insert"
           /\ op[c].blocking \in {"true", "timeout"}
           /\ tableExists
           /\ HeldByOther(NameOf(op[c].h), c)
           /\ op'[c] # op[c]
           /\ op'[c].errs = op[c].errs)
          => \/ op'[c].pc = "insert"
             \/ op[c].blocking = "timeout" /\ op'[c].pc = "done" /\ op'[c].res = "Timeout"]_vars

(* Coordinator d has released name n (release returned True, and d has not *)
(* called anything since) and no other member has a row of n.              *)
ReleasedBy(d, n) ==
    /\ Done(d, "release")
    /\ op[d].res = "True"
    /\ NameOf(op[d].h) = n
    /\ ~HeldByOther(n, d)

(* C6: after the holder of a name has released it, the INSERT of an        *)
(* acquire(blocking=False) of that name by another coordinator, with no    *)
(* acquirer in between and no store error, returns True and records the    *)
(* handle in the list of that coordinator.                                 *)
C6_ReleaseThenAcquire ==
    [][\A c \in Coordinators, d \in Coordinators :
          (/\ c # d
           /\ ReleasedBy(d, NameOf(op[c].h))
           /\ op[c].kind = "acquire"
           /\ op[c].pc = "insert"
           /\ op[c].blocking = "false"
           /\ op[c].errs = 0
           /\ op'[c] # op[c]
           /\ op'[c].errs = 0)
          => /\ op'[c].pc = "done"
             /\ op'[c].res = "True"
             /\ op[c].h \in SeqSet(acquired_locks'[c])]_vars

(* C6 witness: d has released the name and c, another coordinator, has     *)
(* then acquired it without blocking.                                      *)
C6_Witness ==
    \E c \in Coordinators, d \in Coordinators :
        /\ c # d
        /\ Done(d, "release")
        /\ op[d].res = "True"
        /\ Acquired(c)
        /\ op[c].blocking = "false"
        /\ NameOf(op[c].h) = NameOf(op[d].h)
        /\ op[c].res = "True"
        /\ ~op[c].free
        /\ InRegistry(c, op[c].h)

(* C7: release of a handle that is not in the list of its coordinator      *)
(* returns False and changes nothing: no row is deleted and every list     *)
(* stays as it is.                                                         *)
C7_ReleaseNotHeldIsNoOp ==
    [][\A c \in Coordinators :
          (/\ op[c].kind = "release"
           /\ op[c].pc = "delete"
           /\ ~InRegistry(c, op[c].h)
           /\ op'[c] # op[c])
          => /\ op'[c].pc = "done"
             /\ op'[c].res = "False"
             /\ tooz_locks' = tooz_locks
             /\ acquired_locks' = acquired_locks]_vars

(* C7 witness: release has returned False to a coordinator while the name  *)
(* has a row: the row of another member, or its own through another        *)
(* handle.                                                                 *)
C7_Witness ==
    \E c \in Coordinators, d \in Coordinators :
        /\ c # d
        /\ Done(c, "release")
        /\ op[c].res = "False"
        /\ HeldByOther(NameOf(op[c].h), c)
        /\ Done(d, "release")
        /\ op[d].res = "False"
        /\ ~InRegistry(d, op[d].h)
        /\ Row(NameOf(op[d].h), d) \in tooz_locks

(* C8: stop is best-effort over the whole list: every handle that is in    *)
(* the list when stop begins has its release attempted once, in the order  *)
(* of the list, also after a release that raised; then the connection is   *)
(* closed, and stop does not raise what a release raised.                  *)
C8_StopTriesEveryLock ==
    \A c \in Coordinators :
        (Done(c, "stop") /\ op[c].snap # <<>>) =>
            /\ op[c].tried = op[c].snap
            /\ op[c].res = "None"
            /\ conn[c] = "closed"

(* A step of the acquire of c that no transient error hits. *)
AcquireStep(c) ==
    /\ op[c].kind = "acquire"
    /\ op[c].pc \in {"insert", "create"}
    /\ op'[c] # op[c]
    /\ op'[c].errs = op[c].errs

(* The INSERT of the acquire of c returns True: the row is in the table    *)
(* and the handle in the list.                                             *)
ReturnsTrue(c) ==
    /\ op'[c].pc = "done"
    /\ op'[c].res = "True"
    /\ Row(NameOf(op[c].h), c) \in tooz_locks'
    /\ op[c].h \in SeqSet(acquired_locks'[c])

(* The acquire of c ends with the timeout, nothing acquired. *)
TimesOut(c) ==
    /\ op[c].blocking = "timeout"
    /\ op'[c].pc = "done"
    /\ op'[c].res = "Timeout"
    /\ tooz_locks' = tooz_locks
    /\ acquired_locks' = acquired_locks

(* The acquire of c is about to create the table, which no other caller    *)
(* has created meanwhile.                                                  *)
AtCreate(c) ==
    /\ op[c].pc = "create"
    /\ ~tableExists

(* The acquire of c is about to insert again after it created the table,   *)
(* and no other caller has taken the name meanwhile.                       *)
AtInsertAfterCreate(c) ==
    /\ op[c].pc = "insert"
    /\ op[c].noTable
    /\ tableExists
    /\ RowsNamed(NameOf(op[c].h)) = {}

(* C9 as stated: against a store without the lock table, the first acquire *)
(* (blocking or not, single caller, no other store error) finds the table  *)
(* missing, creates it, retries the insert and returns True with the       *)
(* handle recorded.                                                        *)
C9_FirstAcquireSucceeds ==
    [][\A c \in Coordinators :
          (AcquireStep(c) /\ op[c].errs = 0) =>
              /\ (op[c].pc = "insert" /\ ~tableExists /\ ~InRegistry(c, op[c].h))
                    => op'[c].pc = "create"
              /\ AtCreate(c) => (tableExists' /\ op'[c].pc = "insert")
              /\ AtInsertAfterCreate(c) => ReturnsTrue(c)]_vars

(* C9 as amended: the same, but a call whose blocking is a timeout ends    *)
(* with the timeout, the table created and nothing acquired, when the      *)
(* deadline has passed by the time the table is created.                   *)
C9_FirstAcquireSucceedsOrTimesOut ==
    [][\A c \in Coordinators :
          (AcquireStep(c) /\ op[c].errs = 0) =>
              /\ (op[c].pc = "insert" /\ ~tableExists /\ ~InRegistry(c, op[c].h))
                    => op'[c].pc = "create"
              /\ AtCreate(c) => (tableExists' /\ (op'[c].pc = "insert" \/ TimesOut(c)))
              /\ AtInsertAfterCreate(c) => ReturnsTrue(c)]_vars

(* C9 witness: an acquire, not a timeout one, that found the table missing *)
(* and met no transient error has created the table and returned True.     *)
C9_Witness ==
    \E c \in Coordinators :
        /\ Acquired(c)
        /\ op[c].noTable
        /\ op[c].errs = 0
        /\ op[c].blocking = "false"
        /\ tableExists
        /\ op[c].res = "True"
        /\ InRegistry(c, op[c].h)

(* A transient error hits the insert of the acquire of c in this step. *)
InsertHit(c) ==
    /\ op[c].kind = "acquire"
    /\ op[c].pc = "insert"
    /\ op[c].errs = 0
    /\ op'[c].errs = 1

(* The acquire of c is about to insert again after one transient error and *)
(* a reconnect, and the name is free.                                      *)
AtInsertAfterReconnect(c) ==
    /\ op[c].pc = "insert"
    /\ op[c].errs = 1
    /\ op[c].reconnects = 1
    /\ tableExists
    /\ RowsNamed(NameOf(op[c].h)) = {}

ToozErrorNothingChanged(c) ==
    /\ op'[c].pc = "done"
    /\ op'[c].res = "ToozError"
    /\ acquired_locks' = acquired_locks
    /\ tooz_locks' = tooz_locks

(* C10 as stated: when a single transient store error hits the insert of   *)
(* an acquire and the reconnect succeeds, the acquire retries the insert   *)
(* and completes as without the error: it returns True and records the     *)
(* handle when the name is free.  When the reconnect fails the call raises *)
(* ToozError and the lists are unchanged.                                  *)
C10_TransientErrorRetried ==
    [][\A c \in Coordinators :
          /\ InsertHit(c) =>
                IF op'[c].reconnects = 1
                   THEN op'[c].pc = "insert"
                   ELSE ToozErrorNothingChanged(c)
          /\ (AcquireStep(c) /\ AtInsertAfterReconnect(c)) => ReturnsTrue(c)]_vars

(* C10 as amended: the same, but a call whose blocking is a timeout ends   *)
(* with the timeout, nothing acquired, when the deadline has passed by the *)
(* time the connection is made again.                                      *)
C10_TransientErrorRetriedOrTimesOut ==
    [][\A c \in Coordinators :
          /\ InsertHit(c) =>
                IF op'[c].reconnects = 1
                   THEN op'[c].pc = "insert" \/ TimesOut(c)
                   ELSE ToozErrorNothingChanged(c)
          /\ (AcquireStep(c) /\ AtInsertAfterReconnect(c)) => ReturnsTrue(c)]_vars

(* C10 witness: an acquire, not a timeout one, has returned True after one *)
(* transient error on its insert and a reconnect.                          *)
C10_Witness ==
    \E c \in Coordinators :
        /\ Acquired(c)
        /\ ~op[c].noTable
        /\ op[c].errs = 1
        /\ op[c].reconnects = 1
        /\ op[c].blocking = "true"
        /\ op[c].res = "True"
        /\ InRegistry(c, op[c].h)

(* The step of the release of c on a handle that is in its list. *)
ReleaseHeldStep(c) ==
    /\ op[c].kind = "release"
    /\ op[c].pc = "delete"
    /\ InRegistry(c, op[c].h)
    /\ op'[c] # op[c]

(* C11: release of a held handle whose DELETE fails with a store error     *)
(* reconnects and, the reconnect succeeding, deletes again and returns     *)
(* True, the row gone and the handle out of the list; it ends in an        *)
(* exception only when the reconnect fails, and the exception is           *)
(* ToozError: no Retry reaches the caller.                                 *)
C11_ReleaseRetriedAfterReconnect ==
    [][\A c \in Coordinators :
          ReleaseHeldStep(c) =>
              /\ op'[c].pc = "done"
              /\ \/ /\ op'[c].res = "True"
                    /\ Row(NameOf(op[c].h), c) \notin tooz_locks'
                    /\ op[c].h \notin SeqSet(acquired_locks'[c])
                 \/ /\ op'[c].res = "ToozError"
                    /\ op'[c].reconnects = op[c].reconnects]_vars

(* C12: heartbeat() of a coordinator, with no store error, refreshes every *)
(* held lock: the heartbeat of every handle of the list is called, also    *)
(* after one that failed, and for every one of them the UPDATE of          *)
(* updated_at is executed on its row.                                      *)
C12_HeartbeatRefreshesEveryLock ==
    \A c \in Coordinators :
        Done(c, "heartbeat") =>
            /\ op[c].res = "None"
            /\ op[c].tried = op[c].snap
            /\ op[c].updated = op[c].snap

(* The operations of a lock handle. *)
LockOps == {"acquire", "release", "lock_heartbeat"}

(* C13: a lock operation (acquire, release, heartbeat of a handle) called  *)
(* on a coordinator that is not started, before its first start or after   *)
(* stop, ends at once with ToozError and changes neither the table nor any *)
(* list.                                                                   *)
C13_StoppedRefusesLockOps ==
    [][\A c \in Coordinators :
          (/\ ~started[c]
           /\ op'[c] # op[c]
           /\ op'[c].kind \in LockOps)
          => /\ op'[c].pc = "done"
             /\ op'[c].res = "ToozError"
             /\ tooz_locks' = tooz_locks
             /\ acquired_locks' = acquired_locks]_vars

(* A call of start on a coordinator that is not started fails in this      *)
(* step: the connection could not be made.                                 *)
StartFails(c) ==
    /\ IsIdle(c)
    /\ ~started[c]
    /\ op'[c].kind = "start"
    /\ op'[c].res # "None"

C15_CreateRaceTolerated ==
    [][\A c \in Coordinators :
          (/\ AcquireStep(c)
           /\ op[c].pc = "create"
           /\ tableExists)
          => \/ op'[c].pc = "insert"
             \/ TimesOut(c)]_vars

(* C16: while a handle is in the list of its coordinator, acquire on it    *)
(* issues no insert and changes nothing; with blocking False it returns    *)
(* False at once; with blocking True or a timeout it retries as on         *)
(* contention (until the deadline, with a timeout): it never returns True  *)
(* and raises no acquire error.                                            *)
C16_NoDoubleAcquire ==
    [][\A c \in Coordinators :
          (/\ op[c].kind = "acquire"
           /\ op[c].pc = "insert"
           /\ InRegistry(c, op[c].h)
           /\ op'[c] # op[c])
          => /\ tooz_locks' = tooz_locks
             /\ acquired_locks' = acquired_locks
             /\ tableExists' = tableExists
             /\ op'[c].errs = op[c].errs
             /\ IF op[c].blocking = "false"
                   THEN op'[c].pc = "done" /\ op'[c].res = "False"
                   ELSE op'[c].pc = "insert" \/ TimesOut(c)]_vars

(* C16 witness: acquire(blocking=False) on a held handle has returned      *)
(* False to one coordinator, and acquire with a timeout on a held handle   *)
(* has ended with the timeout for another, the handles still held.         *)
C16_Witness ==
    \E c \in Coordinators, d \in Coordinators :
        /\ Acquired(c)
        /\ op[c].blocking = "false"
        /\ op[c].res = "False"
        /\ InRegistry(c, op[c].h)
        /\ Row(NameOf(op[c].h), c) \in tooz_locks
        /\ Acquired(d)
        /\ op[d].blocking = "timeout"
        /\ op[d].res = "Timeout"
        /\ NoStoreError(op[d])
        /\ InRegistry(d, op[d].h)

(* C17: one acquire call reconnects at most once: when a store error hits  *)
(* its insert again after a reconnect that succeeded, the call ends with   *)
(* ToozError and does not reconnect a second time.                         *)
C17_OneReconnectPerAcquire ==
    [][\A c \in Coordinators :
          (/\ op[c].kind = "acquire"
           /\ op[c].pc = "insert"
           /\ op[c].reconnects = 1
           /\ op'[c].errs = op[c].errs + 1)
          => /\ op'[c].pc = "done"
             /\ op'[c].res = "ToozError"
             /\ op'[c].reconnects = 1]_vars

(* C18: heartbeat of a handle that is not in the list of its coordinator   *)
(* is a no-op: it returns None, raises nothing, executes no UPDATE and     *)
(* leaves the table and the lists as they were.                            *)
C18_LockHeartbeatNotHeldIsNoOp ==
    [][\A c \in Coordinators :
          (/\ IsIdle(c)
           /\ op'[c].kind = "lock_heartbeat"
           /\ ~InRegistry(c, op'[c].h))
          => /\ op'[c].pc = "done"
             /\ op'[c].res = "None"
             /\ tooz_locks' = tooz_locks
             /\ acquired_locks' = acquired_locks]_vars

(* A step of the acquire call of c. *)
AnyAcquireStep(c) ==
    /\ op[c].kind = "acquire"
    /\ op[c].pc \in {"insert", "create"}
    /\ op'[c] # op[c]

Quiescent == \A c \in Coordinators : op[c].pc \in {"-", "done"}

(* The names of the handles in the list of coordinator c. *)
NamesHeld(c) == {NameOf(h) : h \in SeqSet(acquired_locks[c])}

(* C20 as stated: whenever no operation is in progress, a handle is in the *)
(* list of its coordinator if and only if the table has a row of the       *)
(* handle's name created by that coordinator.                              *)
C20_RegistryMatchesTable ==
    Quiescent =>
        \A c \in Coordinators, h \in HandleIds :
            InRegistry(c, h) <=> Row(NameOf(h), c) \in tooz_locks

(* C20 as amended: whenever no operation is in progress, a coordinator has *)
(* a handle of a name in its list if and only if the table has a row of    *)
(* that name created by it, and the list has at most one handle of a name; *)
(* another handle it got for the same name is not in the list although the *)
(* row exists.                                                             *)
C20_RegistryMatchesTableByName ==
    Quiescent =>
        \A c \in Coordinators :
            /\ \A n \in Names : n \in NamesHeld(c) <=> Row(n, c) \in tooz_locks
            /\ Cardinality(NamesHeld(c)) = Len(acquired_locks[c])

(* C20 witness: no operation is in progress, a stop has ended leaving a    *)
(* handle in the list and its row in the table, and an acquire of another  *)
(* coordinator has ended in ToozError.                                     *)
C20_Witness ==
    \E c \in Coordinators, d \in Coordinators :
        /\ Quiescent
        /\ Done(c, "stop")
        /\ Len(op[c].snap) = 2
        /\ \E h \in HandleIds :
              InRegistry(c, h) /\ Row(NameOf(h), c) \in tooz_locks
        /\ Acquired(d)
        /\ op[d].res = "ToozError"

=============================================================================
